---- MODULE Spec2Model ----
(***************************************************************************)
(* State-machine model of eventmq's Scheduler (src/eventmq/scheduler.py):  *)
(* the schedule catalog (interval_jobs, cron_jobs), the redis store that   *)
(* mirrors it, the SCHEDULE / UNSCHEDULE / DISCONNECT handlers and the     *)
(* event loop of _start_event_loop with its cron sweep, interval sweep and *)
(* run_count cancellation.                                                 *)
(*                                                                         *)
(* Python lists are 0-based, TLA+ tuples 1-based: message[0] of the code   *)
(* is message[1] here, message[3] (the payload) is message[4], and so on.  *)
(***************************************************************************)
EXTENDS Integers, Sequences, FiniteSets, TLC

\* ------------------------------------------------------------------ bounds
\* Largest finite run_count a SCHEDULE message carries.
MaxRunCount == 1
\* Largest interval_secs a SCHEDULE message carries.
MaxInterval == 1
\* The clock stops advancing here.
MaxTime == 1
\* Number of SCHEDULE messages handled in one behaviour.
MaxSchedules == 2
\* Ticks stop sweeping once a job has been dispatched this many times.
MaxDispatch == 2
\* Seconds between two occurrences of the cron expression "* * * * *"
\* (a minute, scaled down to keep the clock small).
Minute == 1

\* ---------------------------------------------------------------- constants
INFINITE_RUN_COUNT == -1

\* Python's None as a queue, and as the answer of redis for a missing key.
None == "None"
Nil == [nil |-> TRUE]

\* ------------------------------------------------------------------ inputs
Queues == {"q1", "q2"}
\* The identifying part of a payload: args, kwargs, class_args, class_kwargs,
\* path, callable.
Ids == {"j1", "j2"}
\* A payload: element 0 of its JSON array, then the identifying part.
Payload(id) == <<"run", id>>
\* "* * * * *" is the one well-formed cron expression; "" and "every minute"
\* are malformed.
EveryMinute == "* * * * *"

\* A header token: run_count:<int> or the bare token nohaste.
RunCountToken(n) == [k |-> "run_count", v |-> n]
NoHasteToken == [k |-> "nohaste", v |-> 0]
\* headers, already split on ',': no token, nohaste, a run_count, or a
\* positive run_count with nohaste.
HeaderValues ==
    {<<>>, <<NoHasteToken>>}
    \cup {<<RunCountToken(n)>> : n \in 0..MaxRunCount}
    \cup {<<RunCountToken(n), NoHasteToken>> : n \in 1..MaxRunCount}

\* Job Messages <<queue, headers, interval_secs, payload, cron_expr>>.
\* Job j1 is scheduled on either queue with every header value, at an
\* interval or by cron; it is also sent with interval 0 and with a malformed
\* cron expression.
IntervalMessages ==
    {<<q, hd, i, Payload("j1"), "">> :
        q \in Queues, hd \in HeaderValues, i \in 1..MaxInterval}
CronMessages ==
    {<<q, hd, -1, Payload("j1"), EveryMinute>> :
        q \in Queues, hd \in {<<>>, <<NoHasteToken>>, <<RunCountToken(0)>>}}
ZeroIntervalMessages == {<<"q1", <<>>, 0, Payload("j1"), "">>}
MalformedMessages ==
    {<<"q1", <<>>, -1, Payload("j1"), cron>> : cron \in {"", "every minute"}}
\* Job j2 is a second job next to it: a finite interval job, or a cron job.
OtherMessages ==
    {<<"q2", <<RunCountToken(n), NoHasteToken>>, 1, Payload("j2"), "">> :
        n \in 0..MaxRunCount}
    \cup {<<"q2", <<NoHasteToken>>, -1, Payload("j2"), EveryMinute>>}
\* Job j2 sent with a negative interval other than -1 and a cron expression.
NegativeIntervalMessages ==
    {<<"q2", <<NoHasteToken>>, -2, Payload("j2"), EveryMinute>>}
Messages ==
    IntervalMessages \cup CronMessages \cup ZeroIntervalMessages
    \cup MalformedMessages \cup OtherMessages \cup NegativeIntervalMessages

VARIABLES
    interval_jobs,        \* self.interval_jobs: hash -> entry
    cron_jobs,            \* self.cron_jobs: hash -> entry
    store_list,           \* redis list 'interval_jobs'
    store_val,            \* redis keys: hash -> serialized Job Message
    redis_up,             \* the redis server answers calls
    clock,                \* the time, in seconds (wall and monotonic)
    ts_now, m_now,        \* the tick's samples of the two clocks
    pc,                   \* position of the event loop
    received_disconnect,  \* self.received_disconnect
    handled,              \* what the tick's process_message call did
    swept,                \* what the tick's sweeps did
    origin,               \* hash -> the message last scheduled or recovered
    dispatched,           \* hash -> REQUESTs sent since its entry was installed
    sent,                 \* the REQUESTs sent by the last step of the loop
    n_sched,              \* SCHEDULE messages handled
    redis_failed          \* a redis call has failed since the store was empty

vars == <<interval_jobs, cron_jobs, store_list, store_val, redis_up, clock,
          ts_now, m_now, pc, received_disconnect, handled, swept, origin,
          dispatched, sent, n_sched, redis_failed>>

\* -------------------------------------------------------------- dictionaries
Empty == [x \in {} |-> None]
Put(d, k, v) == [x \in (DOMAIN d) \cup {k} |-> IF x = k THEN v ELSE d[x]]
Pop(d, k) == [x \in (DOMAIN d) \ {k} |-> d[x]]
Range(s) == {s[i] : i \in DOMAIN s}
SetMax(S) == CHOOSE x \in S : \A y \in S : y <= x

\* ------------------------------------------------------------------ clocks
\* int(timestamp()) and monotonic() read the same clock, in whole seconds.
timestamp == clock
monotonic == clock

\* utils.timeutils.IntervalIter: next() adds the period and returns the sum.
IntervalIter(start_value, interval_secs) ==
    [current |-> start_value, delta |-> interval_secs]
IntervalIterNext(it) == [it EXCEPT !.current = it.current + it.delta]

\* croniter: next() moves to the first occurrence strictly after the current
\* position and returns it.
CronValid(expr) == expr = EveryMinute
croniter(expr, start) == [cur |-> start, expr |-> expr]
CronIterNext(c) == [c EXCEPT !.cur = ((c.cur \div Minute) + 1) * Minute]

\* ----------------------------------------------------------------- messages
\* json.dumps and json.loads of a Job Message; redis answers with the strings
\* it was given (str and bytes compare equal, as under Python 2).
serialize(message) == [json |-> message]
deserialize(value) == value.json

schedule_hash(message) == message[4][2]

get_run_count_from_headers(headers) ==
    LET at == {i \in DOMAIN headers : headers[i].k = "run_count"}
    IN  IF at = {} THEN INFINITE_RUN_COUNT ELSE headers[SetMax(at)].v

HasNoHaste(headers) == \E i \in DOMAIN headers : headers[i].k = "nohaste"

\* A REQUEST on the wire (client.messages.send_request with
\* reply_requested=True); want is the queue of the message the job came from.
send_request(h, job_message, queue, by, want) ==
    [hash |-> h, payload |-> job_message, queue |-> queue, by |-> by,
     want |-> want]

\* -------------------------------------------------------------------- redis
lrange(list) == list
lpush(list, x) == <<x>> \o list
\* LREM with count 0 removes every occurrence.
lrem(list, x) == SelectSeq(list, LAMBDA e : e # x)
get(val, k) == IF k \in DOMAIN val THEN val[k] ELSE Nil
set(val, k, v) == Put(val, k, v)
delete(val, k) == Pop(val, k)

\* ------------------------------------------------------------ catalog entries
\* The 5-item list of an interval job and the 4-item list of a cron job.
IntervalEntry(next, payload, iter, queue, run_count) ==
    [next |-> next, payload |-> payload, iter |-> iter, queue |-> queue,
     run_count |-> run_count]
CronEntry(next, payload, iter, queue) ==
    [next |-> next, payload |-> payload, iter |-> iter, queue |-> queue]

NewIntervalEntry(message, queue, run_count) ==
    LET inter_iter == IntervalIterNext(IntervalIter(monotonic, message[3]))
    IN  IntervalEntry(inter_iter.current, message[4], inter_iter, queue,
                      run_count)

\* c_next = next(c); if ts >= c_next: c_next = next(c)
CronSeed_Unadvanced(cron) == croniter(cron, clock)
CronSeed(cron) ==
    LET ts == timestamp
        c1 == CronIterNext(croniter(cron, clock))
    IN  IF ts >= c1.cur THEN CronIterNext(c1) ELSE c1

\* The queue slot on_schedule gives a cron entry.
ScheduledCronQueue(queue) == None

NewCronEntry(message, queue) ==
    LET c == CronSeed(message[5])
    IN  CronEntry(c.cur, message[4], c, queue)

\* on_schedule pops the hash from the map of the other cadence.
PopOther_Keep(jobs, h) == jobs
PopOther(jobs, h) == Pop(jobs, h)

NoOrigin == [message |-> <<>>, by |-> "none"]
Idle == [cmd |-> "none", hash |-> None, outcome |-> "none", existing |-> FALSE,
         send |-> "none", kind |-> "none"]
NoSweep == [cron |-> {}, interval |-> {}, staged |-> {}, removed |-> {},
            forgotten |-> {}, alive |-> TRUE]

Init ==
    /\ interval_jobs = Empty
    /\ cron_jobs = Empty
    /\ store_list = <<>>
    /\ store_val = Empty
    /\ redis_up = TRUE
    /\ clock = 0
    /\ ts_now = 0
    /\ m_now = 0
    /\ pc = "top"
    /\ received_disconnect = FALSE
    /\ handled = Idle
    /\ swept = NoSweep
    /\ origin = [h \in Ids |-> NoOrigin]
    /\ dispatched = [h \in Ids |-> 0]
    /\ sent = {}
    /\ n_sched = 0
    /\ redis_failed = FALSE

\* --------------------------------------------------------------- environment
\* A second passes.
Elapse ==
    /\ clock < MaxTime
    /\ clock' = clock + 1
    /\ UNCHANGED <<interval_jobs, cron_jobs, store_list, store_val, redis_up,
                   ts_now, m_now, pc, received_disconnect, handled, swept,
                   origin, dispatched, sent, n_sched, redis_failed>>

\* The redis server becomes unreachable, or reachable again.
RedisDown ==
    /\ redis_up
    /\ redis_up' = FALSE
    /\ UNCHANGED <<interval_jobs, cron_jobs, store_list, store_val, clock,
                   ts_now, m_now, pc, received_disconnect, handled, swept,
                   origin, dispatched, sent, n_sched, redis_failed>>

RedisUp ==
    /\ ~redis_up
    /\ redis_up' = TRUE
    /\ UNCHANGED <<interval_jobs, cron_jobs, store_list, store_val, clock,
                   ts_now, m_now, pc, received_disconnect, handled, swept,
                   origin, dispatched, sent, n_sched, redis_failed>>

\* ----------------------------------------------------------------- loop head
\* while True: if self.received_disconnect: break; sample the clocks.
\* A loop head that polls whatever the flag says.
AtLoopTop_NoBreak(flag) == "poll"

\* if self.received_disconnect: break
AtLoopTop(flag) == IF flag THEN "exit_disconnect" ELSE "poll"

LoopTop ==
    /\ pc = "top"
    /\ pc' = AtLoopTop(received_disconnect)
    /\ IF pc' = "poll"
       THEN /\ ts_now' = timestamp
            /\ m_now' = monotonic
       ELSE UNCHANGED <<ts_now, m_now>>
    /\ handled' = Idle
    /\ swept' = NoSweep
    /\ sent' = {}
    /\ UNCHANGED <<interval_jobs, cron_jobs, store_list, store_val, redis_up,
                   clock, received_disconnect, origin, dispatched, n_sched,
                   redis_failed>>

\* The poll returns with nothing readable on the frontend socket.
PollIdle ==
    /\ pc = "poll"
    /\ pc' = "sweep"
    /\ UNCHANGED <<interval_jobs, cron_jobs, store_list, store_val, redis_up,
                   clock, ts_now, m_now, received_disconnect, handled, swept,
                   origin, dispatched, sent, n_sched, redis_failed>>

\* ---------------------------------------------------------------- on_schedule
\* Where the loop goes on when a handler called by process_message raised:
\* the message is logged and dropped, and the tick continues with the sweeps.
AfterHandlerError == "sweep"

\* The redis calls a handler gets answered before one raises ConnectionError:
\* none with the server down, and with the server up the first at least, of
\* the n calls the handler makes.
Answers(n) == IF redis_up THEN 1..n ELSE {0}

\* if schedule_hash not in lrange('interval_jobs', 0, -1): lpush(...)
PushOnce_Never(list, h) == list
PushOnce(list, h) ==
    IF h \in Range(lrange(list)) THEN list ELSE lpush(list, h)

\* The redis calls of on_schedule that change or read the store: lrange,
\* lpush for a hash that is not listed, set.
ScheduleCalls(list, h) == IF h \in Range(lrange(list)) THEN 2 ELSE 3

\* <<list, values>> of redis after the try block of on_schedule, with the
\* first `answered` calls answered and the next one raising.
Persist(list, val, message, answered) ==
    LET h == schedule_hash(message)
    IN  <<IF answered >= 2 THEN PushOnce(list, h) ELSE list,
          IF answered >= ScheduleCalls(list, h)
          THEN set(val, h, serialize(message)) ELSE val>>

\* What a SCHEDULE message asks for, by its fields: an interval job, an
\* interval job of period 0, a cron job, or a cron job without an expression
\* croniter can parse.
MessageKind(message) ==
    IF message[3] > 0 THEN "interval"
    ELSE IF message[3] = 0 THEN "zero"
    ELSE IF CronValid(message[5]) THEN "cron"
    ELSE "malformed"

\* <<interval_jobs, cron_jobs>> after the if/else that installs the entry.
Install(ij, cj, message) ==
    LET queue == message[1]
        h == schedule_hash(message)
        run_count == get_run_count_from_headers(message[2])
    IN  IF message[3] >= 0
        THEN <<Put(ij, h, NewIntervalEntry(message, queue, run_count)),
               PopOther(cj, h)>>
        ELSE <<PopOther(ij, h),
               Put(cj, h, NewCronEntry(message, ScheduledCronQueue(queue)))>>

\* The catalog on_schedule leaves when croniter(cron) raises: the call comes
\* before the entry is assigned and before the pop from interval_jobs.
AtCronError_Popped(ij, cj, h) == <<Pop(ij, h), cj>>
AtCronError(ij, cj, h) == <<ij, cj>>

\* The catalog on_schedule goes on with after an except clause of the try
\* block has logged a failed redis call.
ExceptPersist_Undo(before, installed) == before
ExceptPersist(before, installed) == installed

\* if 'nohaste' not in headers:
\*     if run_count > 0 or run_count == INFINITE_RUN_COUNT:
HasteSent_Always(message) == ~HasNoHaste(message[2])
HasteSent(message) ==
    LET run_count == get_run_count_from_headers(message[2])
    IN  /\ ~HasNoHaste(message[2])
        /\ (run_count > 0 \/ run_count = INFINITE_RUN_COUNT)

\* if run_count > 0: if interval_job: self.interval_jobs[hash][4] -= 1
HasteDecrement(ij, message) ==
    LET h == schedule_hash(message)
    IN  IF /\ get_run_count_from_headers(message[2]) > 0
           /\ message[3] >= 0
           /\ h \in DOMAIN ij
        THEN [ij EXCEPT ![h].run_count = @ - 1] ELSE ij

\* <<interval_jobs, cron_jobs, list, values>> at the time send_request is
\* called for the haste dispatch: it is the last statement of on_schedule.
AtHaste_First(before, after) == before
AtHaste(before, after) == after

on_schedule(message, answered, send_ok) ==
    LET queue == message[1]
        interval == message[3]
        cron == message[5]
        h == schedule_hash(message)
        interval_job == interval >= 0
        existing == h \in DOMAIN cron_jobs \/ h \in DOMAIN interval_jobs
        answered_all == answered = ScheduleCalls(store_list, h)
        installed == Install(interval_jobs, cron_jobs, message)
        memory == IF answered_all THEN installed
                  ELSE ExceptPersist(<<interval_jobs, cron_jobs>>, installed)
        store == Persist(store_list, store_val, message, answered)
        haste == HasteSent(message)
        ij2 == IF haste THEN HasteDecrement(memory[1], message)
               ELSE memory[1]
        final == IF haste /\ ~send_ok
                 THEN AtHaste(<<interval_jobs, cron_jobs, store_list,
                                store_val>>,
                              <<ij2, memory[2], store[1], store[2]>>)
                 ELSE <<ij2, memory[2], store[1], store[2]>>
    IN  IF ~interval_job /\ ~CronValid(cron)
        THEN \* croniter(cron) raises
             /\ interval_jobs' = AtCronError(interval_jobs, cron_jobs, h)[1]
             /\ cron_jobs' = AtCronError(interval_jobs, cron_jobs, h)[2]
             /\ handled' = [cmd |-> "schedule", hash |-> h,
                            outcome |-> "raised", existing |-> existing,
                            send |-> "none", kind |-> MessageKind(message)]
             /\ UNCHANGED <<store_list, store_val, origin, dispatched, sent,
                            redis_failed>>
        ELSE /\ interval_jobs' = final[1]
             /\ cron_jobs' = final[2]
             /\ store_list' = final[3]
             /\ store_val' = final[4]
             /\ redis_failed' = (redis_failed \/ ~answered_all)
             /\ origin' = [origin EXCEPT
                             ![h] = [message |-> message, by |-> "schedule"]]
             /\ dispatched' = [dispatched EXCEPT
                                 ![h] = IF haste /\ send_ok THEN 1 ELSE 0]
             /\ sent' = IF haste /\ send_ok
                        THEN {send_request(h, message[4], queue, "haste",
                                           queue)}
                        ELSE {}
             /\ handled' = [cmd |-> "schedule", hash |-> h,
                            outcome |-> IF answered_all THEN "persisted"
                                        ELSE "memory",
                            existing |-> existing,
                            send |-> IF ~haste THEN "none"
                                     ELSE IF send_ok THEN "ok" ELSE "failed",
                            kind |-> MessageKind(message)]

HandleSchedule ==
    /\ pc = "poll"
    /\ n_sched < MaxSchedules
    /\ \E message \in Messages :
         \E answered \in Answers(ScheduleCalls(store_list,
                                               schedule_hash(message))) :
           \E send_ok \in BOOLEAN :
             on_schedule(message, answered, send_ok)
    /\ n_sched' = n_sched + 1
    /\ pc' = IF handled'.outcome = "raised" \/ handled'.send = "failed"
             THEN AfterHandlerError ELSE "sweep"
    /\ UNCHANGED <<redis_up, clock, ts_now, m_now, received_disconnect, swept>>

\* ------------------------------------------------------------- unschedule_job
\* UNSCHEDULE names a job by its payload; the other fields are not read.
UnscheduleMessages == {<<"q1", <<>>, 0, Payload(id), "">> : id \in Ids}

\* <<interval_jobs, cron_jobs>> after the if/elif/else that pops the hash.
\* An unschedule that empties both maps.
Unscheduled_All(ij, cj, h) == <<Empty, Empty>>

Unscheduled(ij, cj, h) ==
    IF h \in DOMAIN ij THEN <<Pop(ij, h), cj>>
    ELSE IF h \in DOMAIN cj THEN <<ij, Pop(cj, h)>>
    ELSE <<ij, cj>>

\* The redis calls of unschedule_job that read or change the store: get, and
\* delete and lrem when get found a value.
UnscheduleCalls(val, h) == IF get(val, h) # Nil THEN 3 ELSE 1

\* <<list, values>> of redis after the try block of unschedule_job, with the
\* first `answered` calls answered and the next one raising.
Forget_Split(list, val, h, answered) ==
    IF answered >= 1 /\ get(val, h) # Nil
    THEN <<list, IF answered >= 2 THEN delete(val, h) ELSE val>>
    ELSE <<IF answered >= 2 THEN lrem(list, h) ELSE list, val>>
Forget(list, val, h, answered) ==
    IF answered >= 1 /\ get(val, h) # Nil
    THEN <<IF answered >= 3 THEN lrem(list, h) ELSE list,
           IF answered >= 2 THEN delete(val, h) ELSE val>>
    ELSE <<list, val>>

unschedule_job(message, answered) ==
    LET h == schedule_hash(message)
        memory == Unscheduled(interval_jobs, cron_jobs, h)
        store == Forget(store_list, store_val, h, answered)
        answered_all == answered >= UnscheduleCalls(store_val, h)
    IN  /\ interval_jobs' = memory[1]
        /\ cron_jobs' = memory[2]
        /\ store_list' = store[1]
        /\ store_val' = store[2]
        /\ redis_failed' = (redis_failed \/ ~answered_all)
        /\ origin' = [origin EXCEPT ![h] = NoOrigin]
        /\ dispatched' = [dispatched EXCEPT ![h] = 0]
        /\ handled' = [cmd |-> "unschedule", hash |-> h,
                       outcome |-> IF answered_all THEN "persisted"
                                   ELSE "memory",
                       existing |-> h \in DOMAIN interval_jobs
                                    \/ h \in DOMAIN cron_jobs,
                       send |-> "none", kind |-> "none"]

HandleUnschedule ==
    /\ pc = "poll"
    /\ \E message \in UnscheduleMessages :
         \E answered \in Answers(UnscheduleCalls(store_val,
                                                 schedule_hash(message))) :
           unschedule_job(message, answered)
    /\ pc' = "sweep"
    /\ UNCHANGED <<redis_up, clock, ts_now, m_now, received_disconnect, swept,
                   sent, n_sched>>

\* --------------------------------------------------------------- on_disconnect
HandleDisconnect ==
    /\ pc = "poll"
    /\ received_disconnect' = TRUE
    /\ handled' = [cmd |-> "disconnect", hash |-> None, outcome |-> "none",
                   existing |-> FALSE, send |-> "none", kind |-> "none"]
    /\ pc' = "sweep"
    /\ UNCHANGED <<interval_jobs, cron_jobs, store_list, store_val, redis_up,
                   clock, ts_now, m_now, swept, origin, dispatched, sent,
                   n_sched, redis_failed>>

\* ------------------------------------------------------------------ the sweeps
\* Cron entries the sweep finds due: next_monotonic <= ts_now.
DueCron == {h \in DOMAIN cron_jobs : cron_jobs[h].next <= ts_now}

\* A cron entry after it was dispatched: next(interval_iterator) moves the
\* iterator, and the value it returns is bound to the local next_monotonic.
CronAfterDispatch(cron) == [cron EXCEPT !.iter = CronIterNext(@)]

\* Interval entries the sweep finds due: next_monotonic <= m_now.
DueInterval == {h \in DOMAIN interval_jobs : interval_jobs[h].next <= m_now}

\* The due entries appended to cancel_jobs.
Staged == {h \in DueInterval :
             /\ interval_jobs[h].run_count # INFINITE_RUN_COUNT
             /\ interval_jobs[h].run_count <= 0}

\* The due entries dispatched by the interval sweep.
FiredInterval == DueInterval \ Staged

\* An interval entry after it was dispatched: run_count -= 1 decrements the
\* local, next(interval_iterator) moves the iterator and binds the local.
IntervalAfterDispatch(job) == [job EXCEPT !.iter = IntervalIterNext(@)]

\* The headers of the stored message with every run_count token rewritten.
NewHeaders(headers, run_count) ==
    [i \in DOMAIN headers |->
        IF headers[i].k = "run_count" THEN RunCountToken(run_count)
        ELSE headers[i]]

\* redis after the sweep's run_count update of one dispatched finite entry;
\* a missing value makes deserialize raise, which is logged.
UpdateRunCount(val, h, run_count) ==
    IF get(val, h) = Nil THEN val
    ELSE LET message == deserialize(get(val, h))
         IN  set(val, h, serialize(
                 [message EXCEPT ![2] = NewHeaders(message[2], run_count)]))

\* The hash the cancel loop deletes for a staged job: it reads job_hash, which
\* the interval sweep left bound to the last key it iterated.
CancelTarget(job, job_hash) == job_hash

\* if not self.maybe_send_heartbeat(events): break
AfterHeartbeat(alive) == IF alive THEN "top" ELSE "exit_heartbeat"

Sweep ==
    /\ pc = "sweep"
    /\ \A h \in Ids : dispatched[h] < MaxDispatch
    /\ LET finite == {h \in FiredInterval :
                        interval_jobs[h].run_count # INFINITE_RUN_COUNT}
           cj1 == [h \in DOMAIN cron_jobs |->
                     IF h \in DueCron THEN CronAfterDispatch(cron_jobs[h])
                     ELSE cron_jobs[h]]
           ij1 == [h \in DOMAIN interval_jobs |->
                     IF h \in FiredInterval
                     THEN IntervalAfterDispatch(interval_jobs[h])
                     ELSE interval_jobs[h]]
           val1 == [h \in DOMAIN store_val |->
                      IF redis_up /\ h \in finite
                      THEN UpdateRunCount(store_val, h,
                                          interval_jobs[h].run_count - 1)[h]
                      ELSE store_val[h]]
           requests ==
               {send_request(h, cron_jobs[h].payload, cron_jobs[h].queue,
                             "cron", origin[h].message[1]) : h \in DueCron}
               \cup
               {send_request(h, interval_jobs[h].payload,
                             interval_jobs[h].queue, "interval",
                             origin[h].message[1]) : h \in FiredInterval}
       IN  /\ cron_jobs' = cj1
           /\ sent' = requests
           /\ dispatched' = [h \in Ids |->
                               IF h \in DueCron \cup FiredInterval
                               THEN dispatched[h] + 1 ELSE dispatched[h]]
           /\ IF Staged = {}
              THEN /\ interval_jobs' = ij1
                   /\ store_val' = val1
                   /\ UNCHANGED store_list
                   /\ \E alive \in BOOLEAN :
                        /\ pc' = AfterHeartbeat(alive)
                        /\ swept' = [cron |-> DueCron,
                                     interval |-> FiredInterval,
                                     staged |-> {}, removed |-> {},
                                     forgotten |-> {}, alive |-> alive]
              ELSE \* the iteration order of the dict is left to the build
                   \E job_hash \in DOMAIN interval_jobs :
                     LET gone == {CancelTarget(job, job_hash) : job \in Staged}
                     IN
                     /\ interval_jobs' =
                          [h \in (DOMAIN ij1) \ gone |-> ij1[h]]
                     /\ store_val' =
                          IF redis_up
                          THEN [h \in (DOMAIN val1) \ gone |-> val1[h]]
                          ELSE val1
                     /\ store_list' =
                          IF redis_up
                          THEN SelectSeq(store_list, LAMBDA e : e \notin gone)
                          ELSE store_list
                     \* a second del of the same key raises KeyError
                     /\ \E alive \in IF Cardinality(gone) < Cardinality(Staged)
                                     THEN {TRUE} ELSE BOOLEAN :
                          /\ pc' = IF Cardinality(gone) < Cardinality(Staged)
                                   THEN "exit_error"
                                   ELSE AfterHeartbeat(alive)
                          /\ swept' = [cron |-> DueCron,
                                       interval |-> FiredInterval,
                                       staged |-> Staged, removed |-> gone,
                                       forgotten |->
                                           IF redis_up THEN gone ELSE {},
                                       alive |-> alive]
           /\ redis_failed' = (redis_failed \/
                               (~redis_up /\ (finite # {} \/ Staged # {})))
    /\ UNCHANGED <<redis_up, clock, ts_now, m_now, received_disconnect,
                   handled, origin, n_sched>>

\* -------------------------------------------------------------------- recovery
\* load_job_from_redis on a catalog cat = <<interval_jobs, cron_jobs>>.
load_job_from_redis(cat, message) ==
    LET queue == message[1]
        headers == message[2]
        interval == message[3]
        h == schedule_hash(message)
        cron == IF interval = -1 THEN message[5] ELSE ""
    IN  IF interval >= 0
        THEN <<Put(cat[1], h,
                   NewIntervalEntry(message, queue,
                                    get_run_count_from_headers(headers))),
               cat[2]>>
        ELSE IF cron # ""
        THEN <<cat[1], Put(cat[2], h, NewCronEntry(message, queue))>>
        ELSE cat

\* The loop of load_jobs from element i of the redis list on, with `left`
\* redis calls still answered: each element costs one get, and a second get
\* when the first found a value. A call that raises ends load_jobs in its
\* except clause, with the catalog as the loop has left it.
RECURSIVE LoadFrom(_, _, _, _, _)
LoadFrom(list, val, i, cat, left) ==
    IF i > Len(list) THEN cat
    ELSE IF left < 1 THEN cat
    ELSE IF get(val, list[i]) = Nil
    THEN LoadFrom(list, val, i + 1, cat, left - 1)
    ELSE IF left < 2 THEN cat
    ELSE LET message == deserialize(get(val, list[i]))
         IN  IF message[3] = -1 /\ message[5] # "" /\ ~CronValid(message[5])
             THEN cat   \* croniter raises; load_jobs logs it and returns
             ELSE LoadFrom(list, val, i + 1,
                           load_job_from_redis(cat, message), left - 2)

\* The redis calls load_jobs makes when every one is answered: lrange, then
\* the gets of the loop.
RECURSIVE LoadCalls(_, _, _)
LoadCalls(list, val, i) ==
    IF i > Len(list) THEN 1
    ELSE (IF get(val, list[i]) = Nil THEN 1 ELSE 2)
         + LoadCalls(list, val, i + 1)

\* The catalog load_jobs builds on the empty one of __init__, with the first
\* `answered` redis calls answered and the next one raising.
load_jobs(list, val, answered) ==
    IF answered >= 1
    THEN LoadFrom(lrange(list), val, 1, <<Empty, Empty>>, answered - 1)
    ELSE <<Empty, Empty>>

\* The process is started again: Scheduler.__init__ ends with an empty
\* catalog filled by load_jobs.
Restart ==
    /\ pc \in {"exit_disconnect", "exit_heartbeat", "exit_error"}
    /\ \E answered \in Answers(LoadCalls(store_list, store_val, 1)) :
         LET cat == load_jobs(store_list, store_val, answered)
             answered_all == answered = LoadCalls(store_list, store_val, 1)
         IN  /\ interval_jobs' = cat[1]
             /\ cron_jobs' = cat[2]
             /\ origin' = [h \in Ids |->
                             IF h \in DOMAIN cat[1] \cup DOMAIN cat[2]
                             THEN [message |-> deserialize(store_val[h]),
                                   by |-> "load"]
                             ELSE IF h \in Range(store_list)
                                     /\ h \in DOMAIN store_val
                             THEN [message |-> deserialize(store_val[h]),
                                   by |-> "skipped"]
                             ELSE NoOrigin]
             /\ redis_failed' = (redis_failed \/ ~answered_all)
             /\ handled' = [cmd |-> "load", hash |-> None,
                            outcome |-> IF answered_all THEN "persisted"
                                        ELSE "memory",
                            existing |-> FALSE, send |-> "none", kind |-> "none"]
    /\ dispatched' = [h \in Ids |-> 0]
    /\ pc' = "top"
    /\ received_disconnect' = FALSE
    /\ swept' = NoSweep
    /\ sent' = {}
    /\ UNCHANGED <<store_list, store_val, redis_up, clock, ts_now, m_now,
                   n_sched>>

Next ==
    \/ Elapse
    \/ RedisDown
    \/ RedisUp
    \/ LoopTop
    \/ PollIdle
    \/ HandleSchedule
    \/ HandleUnschedule
    \/ HandleDisconnect
    \/ Sweep
    \/ Restart

Spec == Init /\ [][Next]_vars

\* ===================================================================== claims
Catalog == DOMAIN interval_jobs \cup DOMAIN cron_jobs

\* The step of a tick that runs the cron sweep, the interval sweep and the
\* cancel loop.
SweepStep == pc = "sweep" /\ pc' # "sweep"

\* The entry of hash h was installed by SCHEDULE as an interval job with a
\* finite run_count.
ScheduledFinite(h) ==
    /\ origin[h].by = "schedule"
    /\ origin[h].message[3] >= 0
    /\ get_run_count_from_headers(origin[h].message[2]) # INFINITE_RUN_COUNT

\* C1: an interval job scheduled with finite run_count k is dispatched
\* exactly k times, the haste dispatch included, as long as it is not
\* scheduled again: it is never dispatched more than k times, and when run_count
\* exhaustion stages it, it has been dispatched k times.
C1_DispatchesEqualRunCount ==
    \A h \in Ids :
        ScheduledFinite(h) =>
            LET k == get_run_count_from_headers(origin[h].message[2])
            IN  /\ dispatched[h] <= k
                /\ h \in swept.staged => dispatched[h] = k

\* C2: when the interval sweep dispatches an entry, the deadline stored in
\* the entry after the tick is strictly greater than the one stored before.
\* Entries of period 0 are left out: their iterator cannot move forward.
C2_IntervalDeadlineIncreases ==
    [][SweepStep =>
        \A h \in swept'.interval :
            (h \in DOMAIN interval_jobs' /\ interval_jobs[h].iter.delta > 0)
                => interval_jobs'[h].next > interval_jobs[h].next]_vars

\* C3: when the cron sweep dispatches an entry, the next_fire_wall stored
\* after the tick is the iterator's next value, strictly greater than the one
\* stored before.
C3_CronDeadlineAdvances ==
    [][SweepStep =>
        \A h \in swept'.cron :
            /\ cron_jobs'[h].next = cron_jobs'[h].iter.cur
            /\ cron_jobs'[h].next > cron_jobs[h].next]_vars

\* C4: the hashes a tick removes from interval_jobs by run_count exhaustion,
\* and from the store when it answers, are exactly the hashes the tick staged.
C4_RemovedAreStaged ==
    /\ swept.removed = swept.staged
    /\ swept.forgotten # {} => swept.forgotten = swept.staged

\* C5: no tick ends in an unhandled error.
C5_NoUnhandledError == pc # "exit_error"

\* C6: no schedule hash is a key of both interval_jobs and cron_jobs.
C6_Disjoint == DOMAIN interval_jobs \cap DOMAIN cron_jobs = {}

\* C6 witness: a job persisted as an interval job has just been scheduled
\* again as a cron job (with redis down, so the store still shows the
\* interval message).
C6_Witness ==
    /\ handled.cmd = "schedule"
    /\ handled.existing
    /\ handled.hash \in DOMAIN cron_jobs
    /\ handled.hash \in DOMAIN store_val
    /\ deserialize(store_val[handled.hash])[3] >= 0

\* What the catalog cat = <<interval_jobs, cron_jobs>> holds for hash h: the
\* map, the payload, the queue and the run_count.
EntryView(cat, h) ==
    IF h \in DOMAIN cat[1]
    THEN [map |-> "interval", payload |-> cat[1][h].payload,
          queue |-> cat[1][h].queue, run_count |-> cat[1][h].run_count]
    ELSE IF h \in DOMAIN cat[2]
    THEN [map |-> "cron", payload |-> cat[2][h].payload,
          queue |-> cat[2][h].queue, run_count |-> INFINITE_RUN_COUNT]
    ELSE [map |-> "none", payload |-> <<>>, queue |-> None,
          run_count |-> INFINITE_RUN_COUNT]

\* A SCHEDULE has just been accepted and persisted.
JustScheduled ==
    /\ pc = "sweep"
    /\ handled.cmd = "schedule"
    /\ handled.outcome = "persisted"

\* C7: right after an accepted SCHEDULE(m) with redis reachable, load_jobs on
\* an empty catalog yields for the hash of m the entry the catalog holds: same
\* map, payload, queue and run_count.
C7_RoundTrip ==
    JustScheduled =>
        EntryView(load_jobs(store_list, store_val,
                            LoadCalls(store_list, store_val, 1)),
                  handled.hash)
            = EntryView(<<interval_jobs, cron_jobs>>, handled.hash)

\* C8: every REQUEST is tagged with the queue of the Job Message that created
\* the job's entry.
C8_TaggedWithQueue == \A r \in sent : r.queue = r.want

\* C9: with every redis call answered since the empty start and every entry
\* installed by SCHEDULE (no job recovered from a store left by an earlier
\* run), after a SCHEDULE or UNSCHEDULE the hashes of the redis list, the
\* hashes with a stored value and the keys of the two maps are the same set.
C9_StoreMirrorsCatalog ==
    (/\ ~redis_failed
     /\ \A h \in Ids : origin[h].by \in {"none", "schedule"}
     /\ pc = "sweep"
     /\ handled.cmd \in {"schedule", "unschedule"})
        => /\ Range(store_list) = DOMAIN store_val
           /\ DOMAIN store_val = Catalog

\* C9 witness: both jobs were scheduled and persisted, and an UNSCHEDULE has
\* just removed one of them.
C9_Witness ==
    /\ ~redis_failed
    /\ \A h \in Ids : origin[h].by \in {"none", "schedule"}
    /\ pc = "sweep"
    /\ handled.cmd = "unschedule"
    /\ handled.existing
    /\ Catalog # {}
    /\ handled.hash \notin Catalog

\* Occurrences of x in the sequence list.
Count(list, x) == Cardinality({i \in DOMAIN list : list[i] = x})

\* The run_count SCHEDULE(message) leaves in an interval entry: the header's,
\* less one for the haste dispatch of a finite positive count.
ScheduledRunCount(message) ==
    LET k == get_run_count_from_headers(message[2])
    IN  IF k > 0 /\ ~HasNoHaste(message[2]) THEN k - 1 ELSE k

\* C10: a SCHEDULE(m') for a hash already in the catalog leaves one entry for
\* it, in the map m' selects, with the payload, queue and run_count of m';
\* the redis list holds the hash once and the stored value is m'.
C10_SecondSupersedes ==
    (JustScheduled /\ handled.existing) =>
        LET h == handled.hash
            m == origin[h].message
            e == EntryView(<<interval_jobs, cron_jobs>>, h)
        IN  /\ ~(h \in DOMAIN interval_jobs /\ h \in DOMAIN cron_jobs)
            /\ e.map = IF m[3] >= 0 THEN "interval" ELSE "cron"
            /\ e.payload = m[4]
            /\ e.queue = m[1]
            /\ e.map = "interval" => e.run_count = ScheduledRunCount(m)
            /\ Count(store_list, h) = 1
            /\ store_val[h] = serialize(m)

\* An UNSCHEDULE has just been handled with every redis call answered.
JustUnscheduled ==
    /\ pc = "sweep"
    /\ handled.cmd = "unschedule"
    /\ handled.outcome = "persisted"

\* C11: after UNSCHEDULE(m) is handled with redis answering every call, the
\* hash of m has no stored value and is not an element of the redis list,
\* whatever the catalog and the store held for it before.
C11_UnscheduleForgets ==
    JustUnscheduled =>
        /\ handled.hash \notin DOMAIN store_val
        /\ handled.hash \notin Range(store_list)

ScheduleDone ==
    /\ pc = "sweep"
    /\ handled.cmd = "schedule"
    /\ handled.outcome # "raised"
    /\ handled.send # "failed"

\* The REQUESTs just sent are one haste dispatch of the payload of message.
OneHaste(message) ==
    /\ Cardinality(sent) = 1
    /\ \A r \in sent :
         /\ r.by = "haste"
         /\ r.hash = schedule_hash(message)
         /\ r.payload = message[4]

\* The run_count the entry of message holds right after SCHEDULE is the
\* header's, less one exactly for an interval job with a finite positive
\* count and a haste dispatch.
DecrementedOnlyWhenCounted(message) ==
    LET h == schedule_hash(message)
        k == get_run_count_from_headers(message[2])
    IN  h \in DOMAIN interval_jobs =>
            interval_jobs[h].run_count =
                IF k > 0 /\ sent # {} THEN k - 1 ELSE k

\* C13 as stated: a SCHEDULE sends exactly one haste dispatch of the payload
\* when the headers do not contain nohaste, for every run_count, and none
\* when they do; the decrement is for finite positive counts of interval jobs
\* only.
C13_HasteForEveryRunCount ==
    ScheduleDone =>
        LET message == origin[handled.hash].message
        IN  /\ IF HasNoHaste(message[2]) THEN sent = {}
               ELSE OneHaste(message)
            /\ DecrementedOnlyWhenCounted(message)

\* C13 amended: the haste dispatch is sent when the headers do not contain
\* nohaste and run_count is -1 or positive; with nohaste, or with a run_count
\* of 0, nothing is sent.
C13_HasteUnlessExhausted ==
    ScheduleDone =>
        LET message == origin[handled.hash].message
            k == get_run_count_from_headers(message[2])
        IN  /\ IF HasNoHaste(message[2]) \/ k = 0 THEN sent = {}
               ELSE OneHaste(message)
            /\ DecrementedOnlyWhenCounted(message)

\* C13 witness: an interval job scheduled with run_count:1 and no nohaste has
\* been dispatched in haste and its entry holds run_count 0.
C13_Witness ==
    /\ ScheduleDone
    /\ handled.send = "ok"
    /\ handled.hash \in DOMAIN interval_jobs
    /\ get_run_count_from_headers(origin[handled.hash].message[2]) = 1
    /\ interval_jobs[handled.hash].run_count = 0
    /\ sent # {}

\* The haste send of the SCHEDULE just handled has failed.
HasteFailed ==
    /\ pc = "sweep"
    /\ handled.cmd = "schedule"
    /\ handled.send = "failed"

\* C14: the haste dispatch comes after the install and the persistence: when
\* the haste send fails, the entry of the message is in the map its interval
\* selects, and when redis answered every call the hash is in the redis list
\* and the message is its stored value.
C14_ScheduledDespiteFailedHaste ==
    HasteFailed =>
        LET h == handled.hash
            message == origin[h].message
        IN  /\ IF message[3] >= 0
               THEN /\ h \in DOMAIN interval_jobs
                    /\ interval_jobs[h].payload = message[4]
               ELSE /\ h \in DOMAIN cron_jobs
                    /\ cron_jobs[h].payload = message[4]
            /\ handled.outcome = "persisted" =>
                   /\ h \in Range(store_list)
                   /\ get(store_val, h) = serialize(message)

\* C14 witness: the haste send of a SCHEDULE for a hash that was not in the
\* catalog has failed, with redis answering every call.
C14_Witness ==
    /\ HasteFailed
    /\ ~handled.existing
    /\ handled.outcome = "persisted"
    /\ sent = {}

\* The step that handles a SCHEDULE message of the given kind.
ScheduleStep(kind) ==
    /\ pc = "poll"
    /\ handled'.cmd = "schedule"
    /\ handled'.kind = kind

\* C15: a SCHEDULE with interval_secs = 0 installs no entry and leaves an
\* existing entry of its hash as it is.
C15_ZeroIntervalRejected ==
    [][ScheduleStep("zero") => UNCHANGED <<interval_jobs, cron_jobs>>]_vars

\* C16: a SCHEDULE with a negative interval and an empty or unparsable cron
\* expression leaves interval_jobs, cron_jobs and the store as they are, an existing entry
\* of its hash included, and sends no haste dispatch.
C16_MalformedDropped ==
    [][ScheduleStep("malformed") =>
        /\ UNCHANGED <<interval_jobs, cron_jobs, store_list, store_val>>
        /\ sent' = {}]_vars

\* C16 witness: a malformed SCHEDULE has just been handled for a hash that
\* has an interval entry and a stored value.
C16_Witness ==
    /\ pc = "sweep"
    /\ handled.cmd = "schedule"
    /\ handled.kind = "malformed"
    /\ handled.existing
    /\ handled.hash \in DOMAIN interval_jobs
    /\ handled.hash \in DOMAIN store_val

\* The entry of the hash of message is the one message asks for: in the map
\* its interval selects, with its payload and, for an interval job, its queue
\* and the run_count SCHEDULE leaves.
EntryOf(message) ==
    LET e == EntryView(<<interval_jobs, cron_jobs>>, schedule_hash(message))
    IN  /\ e.map = IF message[3] >= 0 THEN "interval" ELSE "cron"
        /\ e.payload = message[4]
        /\ e.map = "interval" =>
               /\ e.queue = message[1]
               /\ e.run_count = ScheduledRunCount(message)

\* C17: whether redis answers or not, a SCHEDULE handled to its end leaves the
\* entry the message asks for and sends the same haste dispatch, and an
\* UNSCHEDULE leaves no entry of the hash; a SCHEDULE handled with redis
\* answering every call leaves the hash in the redis list and the message
\* stored, whatever failed before.
C17_MemoryHonoredWithoutStore ==
    /\ ScheduleDone =>
           LET message == origin[handled.hash].message
               k == get_run_count_from_headers(message[2])
           IN  /\ EntryOf(message)
               /\ IF HasNoHaste(message[2]) \/ k = 0 THEN sent = {}
                  ELSE OneHaste(message)
               /\ handled.outcome = "persisted" =>
                      /\ handled.hash \in Range(store_list)
                      /\ get(store_val, handled.hash) = serialize(message)
    /\ (pc = "sweep" /\ handled.cmd = "unschedule") =>
           handled.hash \notin Catalog

\* C17 witness: with redis down and nothing stored, a SCHEDULE has installed
\* its entry and sent the haste dispatch.
C17_Witness ==
    /\ ScheduleDone
    /\ ~redis_up
    /\ handled.outcome = "memory"
    /\ handled.send = "ok"
    /\ handled.hash \in Catalog
    /\ store_list = <<>>
    /\ store_val = Empty

\* load_jobs has just run with every redis call answered.
JustLoaded ==
    /\ pc = "top"
    /\ handled.cmd = "load"
    /\ handled.outcome = "persisted"

\* C18: after load_jobs the catalog has an entry for exactly the listed
\* hashes that have a stored value (a listed hash without a value is skipped,
\* the others are installed), and no REQUEST has been sent.
C18_LoadInstallsStored ==
    JustLoaded =>
        /\ \A h \in Ids :
             (h \in Range(store_list) /\ h \in DOMAIN store_val)
                 <=> h \in Catalog
        /\ sent = {}
        /\ \A h \in Ids : dispatched[h] = 0

\* C19: when a redis call of load_jobs has failed, at the list read or at a
\* later value read, the event loop starts with an empty catalog.
C19_FailedLoadStartsEmpty ==
    (pc = "top" /\ handled.cmd = "load" /\ handled.outcome = "memory")
        => Catalog = {}

\* The step in which __init__ runs load_jobs.
LoadStep == pc # "top" /\ pc' = "top" /\ handled'.cmd = "load"

\* C20: a cron entry installed by SCHEDULE or by load_jobs holds a
\* next_fire_wall greater than the wall-clock second of its installation, and
\* the sweep of the tick that handled the SCHEDULE does not dispatch it.
C20_CronFirstFireLater ==
    [][/\ ScheduleStep("cron") =>
            /\ handled'.hash \in DOMAIN cron_jobs'
            /\ cron_jobs'[handled'.hash].next > timestamp
       /\ LoadStep =>
            \A h \in DOMAIN cron_jobs' : cron_jobs'[h].next > timestamp
       /\ (SweepStep /\ handled.cmd = "schedule" /\ handled.kind = "cron") =>
            handled.hash \notin swept'.cron]_vars

\* C20 witness: the tick that installed a cron entry by SCHEDULE has swept:
\* it dispatched the other job's cron entry, which was due, and not the new
\* one.
C20_Witness ==
    /\ pc = "top"
    /\ handled.cmd = "schedule"
    /\ handled.kind = "cron"
    /\ handled.hash \in DOMAIN cron_jobs
    /\ handled.hash \notin swept.cron
    /\ swept.cron # {}

\* The run_count token of the message stored for hash h; INFINITE_RUN_COUNT
\* when no value is stored or the headers have no token.
StoredRunCount(val, h) ==
    IF get(val, h) = Nil THEN INFINITE_RUN_COUNT
    ELSE get_run_count_from_headers(deserialize(get(val, h))[2])

\* C21: when the interval sweep dispatches an entry with finite run_count
\* c > 0, the REQUEST is sent whether redis answers or not, and with redis
\* answering, the entry's run_count and the run_count token of the stored
\* message are both c - 1 after the tick.
C21_SweepDecrementsBoth ==
    [][SweepStep =>
        \A h \in swept'.interval :
            LET c == interval_jobs[h].run_count
            IN  (c > 0 /\ h \in DOMAIN interval_jobs') =>
                    /\ \E r \in sent' : r.hash = h /\ r.by = "interval"
                    /\ (redis_up /\ h \in DOMAIN store_val') =>
                           /\ interval_jobs'[h].run_count = c - 1
                           /\ StoredRunCount(store_val', h) = c - 1]_vars

\* Every run_count held in memory or stored is INFINITE_RUN_COUNT or at
\* least 0.
NoCountBelowZero ==
    /\ \A h \in DOMAIN interval_jobs :
           interval_jobs[h].run_count >= INFINITE_RUN_COUNT
    /\ \A h \in DOMAIN store_val :
           StoredRunCount(store_val, h) >= INFINITE_RUN_COUNT

\* C22: no run_count falls below 0 in memory or in the store, and a due
\* interval entry whose run_count is 0 is not dispatched by the sweep and is
\* no longer in interval_jobs when the tick ends.
C22_ExhaustedNeverRuns ==
    [][/\ NoCountBelowZero'
       /\ SweepStep =>
            \A h \in DueInterval :
                interval_jobs[h].run_count = 0 =>
                    /\ h \notin swept'.interval
                    /\ \A r \in sent' : r.hash # h
                    /\ pc' # "exit_error" => h \notin DOMAIN interval_jobs']_vars

\* C23: once DISCONNECT has set received_disconnect the poller is not
\* called again: the tick of the handler finishes and the next pass through
\* the loop head leaves the loop; and the tick whose heartbeat reports the
\* peer lost ends with the loop left, which only a restart undoes.
C23_DisconnectEndsLoop ==
    [][/\ received_disconnect => pc' # "poll"
       /\ (received_disconnect /\ pc = "top") =>
              pc' \in {"top", "exit_disconnect"}
       /\ (SweepStep /\ ~swept'.alive) => pc' = "exit_heartbeat"
       /\ pc \in {"exit_disconnect", "exit_heartbeat"} =>
              (pc' = pc \/ handled'.cmd = "load")]_vars

\* C23 witness: the loop was left at its head after a DISCONNECT whose tick
\* still swept, with an entry left in memory.
C23_Witness ==
    /\ pc = "exit_disconnect"
    /\ received_disconnect
    /\ DOMAIN interval_jobs \cup DOMAIN cron_jobs # {}

\* What the scheduler holds for hash h: its entry in each map, its stored
\* value and the number of times it is listed.
Holding(ij, cj, list, val, h) ==
    [interval |-> IF h \in DOMAIN ij THEN ij[h] ELSE Nil,
     cron |-> IF h \in DOMAIN cj THEN cj[h] ELSE Nil,
     stored |-> get(val, h),
     listed |-> Count(lrange(list), h)]

\* C24: handling SCHEDULE(m) or UNSCHEDULE(m) for hash h leaves, for every
\* other hash, its entries in interval_jobs and cron_jobs, its stored value
\* and its occurrences in the redis list as they were.
C24_OtherHashesUntouched ==
    [][(pc = "poll" /\ handled'.cmd \in {"schedule", "unschedule"}) =>
        \A other \in Ids \ {handled'.hash} :
            Holding(interval_jobs', cron_jobs', store_list', store_val', other)
            = Holding(interval_jobs, cron_jobs, store_list, store_val, other)
      ]_vars

\* C24 witness: an UNSCHEDULE that removed an entry and its stored message was
\* handled while another hash has an entry, a stored value and a place in the
\* list.
C24_Witness ==
    /\ JustUnscheduled
    /\ handled.existing
    /\ \E other \in Ids \ {handled.hash} :
           LET held == Holding(interval_jobs, cron_jobs, store_list,
                               store_val, other)
           IN  /\ held.interval # Nil \/ held.cron # Nil
               /\ held.stored # Nil
               /\ held.listed > 0

====
